---- MODULE Spec2Model ----
(***************************************************************************)
(* Session connection manager of the WhatsApp QR / pairing gateway         *)
(* (src/unnamed/part_000): the three global maps (sessions, qrStore,       *)
(* statusStore), createWhatsAppSession with its connection.update handler, *)
(* destroySocket, hardResetSession, waitForConnectionOpen, retry and the   *)
(* /session, /reset and /pair endpoints, for one session id.               *)
(*                                                                         *)
(* Node runs one task at a time; a task is suspended only at an await.     *)
(* Every action below is the code that runs between two suspension points. *)
(* The external client library is the environment: a constructed handle    *)
(* that has not been terminated emits qr / open / close / creds.update     *)
(* events; a handle terminated by destroySocket is taken to be silent.     *)
(***************************************************************************)
EXTENDS Integers, Sequences, FiniteSets, TLC

\* ---------------------------------------------------------------- bounds
MaxHandles == 5      \* connection handles constructed in one behaviour
MaxCreators == 2     \* external create requests (POST /session, WS create)
MaxResets == 1       \* external hard resets (POST /reset, WS logout)
MaxQr == 1           \* QRCode.toDataURL calls in flight at a time
MaxClock == 3        \* milliseconds the clock advances in one behaviour

\* ------------------------------------------------------ program constants
PairTries == 3       \* retry(..., 3, 3000) in POST /pair
HealCeiling == 3     \* the retry ceiling, retry(fn, tries = 3, ...)

Handles == 1..MaxHandles
Creators == 1..MaxCreators
NoHandle == 0

VARIABLES
  sessions,    \* Map sessions: the handle stored under the id, or NoHandle
  qrStore,     \* Map qrStore: TRUE when a rendered QR is stored under the id
  status,      \* Map statusStore: the status record of the id
  disk,        \* credential files of the id: "absent" | "unreg" | "reg"
  handles,     \* every handle makeWASocket has returned
  qrPending,   \* handles with a QRCode.toDataURL call in flight
  creator,     \* the external create requests
  pair,        \* the POST /pair request
  heal,        \* the auto-heal continuation of each handle's close handler
  resetLast,   \* TRUE when the last external request served was POST /reset
  nResets,     \* hardResetSession calls served
  clock        \* new Date(): the wall clock, in milliseconds

vars == <<sessions, qrStore, status, disk, handles, qrPending, creator, pair,
          heal, resetLast, nResets, clock>>

\* ---------------------------------------------------------------- status
\* updatedAt of an id without a status record
NoStamp == 0

EmptyStatus ==
  [phase |-> "undef", connection |-> "undef", connected |-> "undef",
   hasQr |-> "undef", registered |-> "undef", lastError |-> "undef",
   updatedAt |-> NoStamp]

\* setStatus: { ...prev, ...patch, updatedAt: new Date().toISOString() }
setStatus(prev, patch) ==
  [f \in DOMAIN prev |->
     IF f = "updatedAt" THEN clock
     ELSE IF f \in DOMAIN patch THEN patch[f] ELSE prev[f]]

Bool(b) == IF b THEN "true" ELSE "false"

\* ------------------------------------------------------------ credentials
\* useMultiFileAuthState: the creds read from the directory, or fresh ones
LoadCreds(d) == d = "reg"

\* saveCreds: the handle's creds written to the directory
SaveCreds(reg) == IF reg THEN "reg" ELSE "unreg"

\* an rmrfSafe that deletes nothing: C12 fails of it
rmrfSafe_Keeps(d) == d

\* rmrfSafe(sessionPath(id))
rmrfSafe(d) == "absent"

\* ---------------------------------------------------------------- handles
\* st: none (not constructed) | init (constructed, no open or close emitted
\*     yet) | open (open emitted) | dead (sock.end() was called on it, or it
\*     emitted close): a dead handle emits nothing more
\* reg: creds.registered of the creds the handle holds
\* gen: auto-heal recreations in a row that led to the handle
\* Of a dead handle only the fact that it is dead is kept.
NoneHandle == [st |-> "none", reg |-> FALSE, gen |-> 0]
DeadHandle == [st |-> "dead", reg |-> FALSE, gen |-> 0]

Constructed == {h \in Handles : handles[h].st # "none"}
NextHandle == Cardinality(Constructed) + 1

\* a handle that can still emit events
Emitting(h) == handles[h].st \in {"init", "open"}

\* makeWASocket({auth: {creds: state.creds}}): a new live handle
makeWASocket(hs, reg, gen) ==
  [hs EXCEPT ![Cardinality({h \in Handles : hs[h].st # "none"}) + 1] =
     [st |-> "init", reg |-> reg, gen |-> gen]]

\* destroySocket without its qrStore.delete: C4 fails of it
destroySocket_KeepsQr(hs, cur) ==
  [handles |-> IF cur # NoHandle THEN [hs EXCEPT ![cur] = DeadHandle] ELSE hs,
   sessions |-> NoHandle,
   qrStore |-> qrStore]

\* destroySocket: end the stored handle, drop the sessions and qrStore entries
destroySocket(hs, cur) ==
  [handles |-> IF cur # NoHandle THEN [hs EXCEPT ![cur] = DeadHandle] ELSE hs,
   sessions |-> NoHandle,
   qrStore |-> FALSE]

\* the statements of createWhatsAppSession from sessions.set to the return
CreatedStatus(s, reg) ==
  setStatus(s, [phase |-> "created", registered |-> Bool(reg),
                hasQr |-> "false", connected |-> "false"])

\* ------------------------------------------------------------------ tasks
IdleCreator == [pc |-> "idle", reg |-> FALSE, res |-> NoHandle, made |-> FALSE,
                with |-> {}, afterReset |-> FALSE]
IdlePair == [pc |-> "idle", i |-> 0, lastError |-> "undef", sock |-> NoHandle,
             reg |-> FALSE, calls |-> <<>>, errs |-> <<>>, res |-> "none",
             how |-> "none", phone |-> <<>>, listen |-> NoHandle]
IdleHeal == [pc |-> "none", reg |-> FALSE, gen |-> 0,
             why |-> [lo |-> FALSE, msg |-> "none"], made |-> {}]

InFlight(pc) == pc \in {"load", "version"}

\* constructions the running tasks may still perform
PairReserve ==
  CASE InFlight(pair.pc) -> PairTries - pair.i
    [] pair.pc \in {"wait", "pairing", "delay"} -> PairTries - pair.i - 1
    [] OTHER -> 0
Reserve ==
  Cardinality({c \in Creators : InFlight(creator[c].pc)})
  + Cardinality({h \in Handles : heal[h].pc \in {"delay", "load", "version"}})
  + PairReserve
Free == MaxHandles - Cardinality(Constructed) - Reserve

Init ==
  /\ sessions = NoHandle
  /\ qrStore = FALSE
  /\ status = EmptyStatus
  /\ disk \in {"absent", "reg"}
  /\ handles = [h \in Handles |-> NoneHandle]
  /\ qrPending = {}
  /\ creator = [c \in Creators |-> IdleCreator]
  /\ pair = IdlePair
  /\ heal = [h \in Handles |-> IdleHeal]
  /\ resetLast = FALSE
  /\ nResets = 0
  /\ clock = 1

\* ------------------------------------------- POST /session/:id, WS create
\* a createWhatsAppSession without its sessions.has test: C15 fails of it
CreateStart_NoHasTest(c) ==
  /\ creator[c].pc = "idle"
  /\ \A d \in Creators : d < c => creator[d].pc # "idle"
  /\ Free >= 1
  /\ resetLast' = FALSE
  /\ creator' = [creator EXCEPT ![c].pc = "load",
                    ![c].with = {d \in Creators : InFlight(creator[d].pc)},
                    ![c].afterReset = resetLast]
  /\ status' = setStatus(status, [phase |-> "creating"])
  /\ UNCHANGED <<sessions, qrStore, disk, handles, qrPending, pair, heal, nResets,
                 clock>>

\* createWhatsAppSession up to its first await
CreateStart(c) ==
  /\ creator[c].pc = "idle"
  /\ \A d \in Creators : d < c => creator[d].pc # "idle"
  /\ sessions # NoHandle \/ Free >= 1
  /\ resetLast' = FALSE
  /\ IF sessions # NoHandle
       THEN /\ creator' = [creator EXCEPT ![c].pc = "done", ![c].res = sessions,
                                          ![c].afterReset = resetLast]
            /\ UNCHANGED status
       ELSE /\ creator' = [creator EXCEPT ![c].pc = "load",
                              ![c].with = {d \in Creators : InFlight(creator[d].pc)},
                              ![c].afterReset = resetLast]
            /\ status' = setStatus(status, [phase |-> "creating"])
  /\ UNCHANGED <<sessions, qrStore, disk, handles, qrPending, pair, heal, nResets, clock>>

\* await useMultiFileAuthState(authDir) returns
CreateLoad(c) ==
  /\ creator[c].pc = "load"
  /\ creator' = [creator EXCEPT ![c].pc = "version", ![c].reg = LoadCreds(disk)]
  /\ UNCHANGED <<sessions, qrStore, status, disk, handles, qrPending, pair, heal,
                 resetLast, nResets, clock>>

\* await fetchLatestBaileysVersion() returns; the rest of the function
CreateConstruct(c) ==
  /\ creator[c].pc = "version"
  /\ handles' = makeWASocket(handles, creator[c].reg, 0)
  /\ sessions' = NextHandle
  /\ status' = CreatedStatus(status, creator[c].reg)
  /\ creator' = [creator EXCEPT ![c].pc = "done", ![c].res = NextHandle,
                                ![c].made = TRUE]
  /\ UNCHANGED <<qrStore, disk, qrPending, pair, heal, resetLast, nResets, clock>>

\* -------------------------------------------- connection.update handler
\* lastDisconnect.error of a close update: lo = its output.statusCode or
\* payload message is DisconnectReason.loggedOut; msg = its message
CloseReasons ==
  {[lo |-> TRUE,  msg |-> "Logged Out"],
   [lo |-> TRUE,  msg |-> "QR refs attempts ended"],
   [lo |-> FALSE, msg |-> "QR refs attempts ended"],
   [lo |-> FALSE, msg |-> "Connection Failure"]}

\* (msg || '').toLowerCase().includes('qr refs attempts ended')
toLowerCase(msg) ==
  IF msg = "QR refs attempts ended" THEN "qr refs attempts ended" ELSE msg
\* the test without toLowerCase: C5 fails of it
IsQrEnd_CaseSensitive(msg) == msg = "qr refs attempts ended"

IsQrEnd(msg) == toLowerCase(msg) = "qr refs attempts ended"

\* a handler that recreates after every close that is not a logout: C7 fails
\* of it
Classify_HealAll(r) == IF r.lo THEN "loggedOut" ELSE "autoHeal"

\* the branch the close handler takes, first match first
Classify(r) ==
  IF r.lo THEN "loggedOut"
  ELSE IF IsQrEnd(r.msg) THEN "autoHeal"
  ELSE "other"

\* the status after the handler's statements for a close update
ClosedStatus(s, r) ==
  LET s1 == setStatus(s, [connection |-> "close"])
      s2 == setStatus(s1, [connected |-> "false", phase |-> "closed",
                           lastError |-> r.msg, hasQr |-> "false"])
  IN IF Classify(r) = "autoHeal"
       THEN setStatus(s2, [phase |-> "auto_recreate_after_qr_end"])
       ELSE s2

\* the status after the handler's statements for an open update
OpenStatus(s) ==
  setStatus(setStatus(s, [connection |-> "open"]),
            [connected |-> "true", phase |-> "open", hasQr |-> "false"])

\* waitForConnectionOpen's onUpdate listener is registered on handle h
Listening(h) == pair.listen = h

\* a completion that leaves the listener registered: C21 fails of it
off_Forgets(p) == p

\* sock.ev.off('connection.update', onUpdate)
off(p) == [p EXCEPT !.listen = NoHandle]

\* the listener is called for an update of h and its call is not done
Notified(h) == Listening(h) /\ pair.pc = "wait"

\* update {qr}: the handler up to await QRCode.toDataURL(qr)
EvQr(h) ==
  /\ handles[h].st = "init"
  /\ h \notin qrPending /\ Cardinality(qrPending) < MaxQr
  /\ status' = setStatus(status, [connection |-> "undef"])
  /\ qrPending' = qrPending \cup {h}
  /\ UNCHANGED <<sessions, qrStore, disk, handles, creator, pair, heal, resetLast,
                 nResets, clock>>

\* QRCode.toDataURL resolves: the rest of the qr branch
QrRendered(h) ==
  /\ h \in qrPending
  /\ qrPending' = qrPending \ {h}
  /\ qrStore' = TRUE
  /\ status' = setStatus(status, [hasQr |-> "true", phase |-> "qr_ready"])
  /\ UNCHANGED <<sessions, disk, handles, creator, pair, heal, resetLast, nResets, clock>>

\* QRCode.toDataURL rejects: the catch of the qr branch
QrFailed(h) ==
  /\ h \in qrPending
  /\ qrPending' = qrPending \ {h}
  /\ status' = setStatus(status, [phase |-> "qr_error", lastError |-> "qr render error"])
  /\ UNCHANGED <<sessions, qrStore, disk, handles, creator, pair, heal, resetLast,
                 nResets, clock>>

\* update {connection: 'open'}: the handler, then the wait listener
EvOpen(h) ==
  /\ handles[h].st = "init"
  /\ handles' = [handles EXCEPT ![h].st = "open"]
  /\ status' = OpenStatus(status)
  /\ pair' = IF Notified(h)
               THEN off([pair EXCEPT !.pc = "pairing", !.how = "open"])
               ELSE pair
  /\ UNCHANGED <<sessions, qrStore, disk, qrPending, creator, heal, resetLast,
                 nResets, clock>>

\* update {connection: 'close', lastDisconnect}: the handler up to its return
\* or to await delay(1500), then the wait listener
EvClose(h, r) ==
  /\ Emitting(h)
  /\ Classify(r) = "autoHeal" => Free >= 1
  /\ LET d == destroySocket([handles EXCEPT ![h] = DeadHandle], sessions)
     IN /\ handles' = d.handles
        /\ sessions' = d.sessions
        /\ qrStore' = d.qrStore
  /\ status' = ClosedStatus(status, r)
  /\ heal' = IF Classify(r) = "autoHeal"
               THEN [heal EXCEPT ![h].pc = "delay", ![h].gen = handles[h].gen,
                                 ![h].why = r]
               ELSE heal
  /\ pair' = IF Notified(h)
               THEN off([pair EXCEPT !.pc = "delay", !.how = "close",
                                     !.lastError = "Connection closed before open",
                                     !.errs = Append(@, "Connection closed before open")])
               ELSE pair
  /\ UNCHANGED <<disk, qrPending, creator, resetLast, nResets, clock>>

\* creds.update -> saveCreds: the handle's creds, registered once the handle
\* has logged in, are written to the directory
EvCreds(h, reg) ==
  /\ Emitting(h)
  /\ reg = handles[h].reg \/ (reg /\ handles[h].st = "open")
  /\ reg # handles[h].reg \/ disk # SaveCreds(reg)
  /\ handles' = [handles EXCEPT ![h].reg = reg]
  /\ disk' = SaveCreds(reg)
  /\ UNCHANGED <<sessions, qrStore, status, qrPending, creator, pair, heal,
                 resetLast, nResets, clock>>

\* ------------------------------------------------------------- auto-heal
\* await delay(1500) returns: createWhatsAppSession up to its first await
HealStart(h) ==
  /\ heal[h].pc = "delay"
  /\ IF sessions # NoHandle
       THEN /\ heal' = [heal EXCEPT ![h].pc = "done"]
            /\ UNCHANGED status
       ELSE /\ heal' = [heal EXCEPT ![h].pc = "load"]
            /\ status' = setStatus(status, [phase |-> "creating"])
  /\ UNCHANGED <<sessions, qrStore, disk, handles, qrPending, creator, pair,
                 resetLast, nResets, clock>>

HealLoad(h) ==
  /\ heal[h].pc = "load"
  /\ heal' = [heal EXCEPT ![h].pc = "version", ![h].reg = LoadCreds(disk)]
  /\ UNCHANGED <<sessions, qrStore, status, disk, handles, qrPending, creator,
                 pair, resetLast, nResets, clock>>

HealConstruct(h) ==
  /\ heal[h].pc = "version"
  /\ handles' = makeWASocket(handles, heal[h].reg, heal[h].gen + 1)
  /\ sessions' = NextHandle
  /\ status' = CreatedStatus(status, heal[h].reg)
  /\ heal' = [heal EXCEPT ![h].pc = "done", ![h].made = @ \cup {NextHandle}]
  /\ UNCHANGED <<qrStore, disk, qrPending, creator, pair, resetLast, nResets, clock>>

\* ------------------------------------------- POST /reset/:id, WS logout
\* hardResetSession: it has no await
hardResetSession ==
  /\ LET d == destroySocket(handles, sessions)
     IN /\ handles' = d.handles
        /\ sessions' = d.sessions
        /\ qrStore' = d.qrStore
  /\ disk' = rmrfSafe(disk)
  /\ status' = setStatus(status, [phase |-> "reset", registered |-> "false",
                                  hasQr |-> "false", connected |-> "false"])

Reset ==
  /\ nResets < MaxResets
  /\ nResets' = nResets + 1
  /\ resetLast' = TRUE
  /\ hardResetSession
  /\ UNCHANGED <<qrPending, creator, pair, heal, clock>>

Logout ==
  /\ nResets < MaxResets
  /\ nResets' = nResets + 1
  /\ resetLast' = FALSE
  /\ hardResetSession
  /\ UNCHANGED <<qrPending, creator, pair, heal, clock>>

\* ------------------------------------------------------ POST /pair/:id
\* a waitForConnectionOpen without the test: C22 fails of it
WaitShortCircuit_Never(s) == FALSE

\* waitForConnectionOpen's test before it builds its promise
WaitShortCircuit(s) == s.connection = "open" \/ s.connected = "true"

\* a loop that runs once more: C9 fails of it
RetryMore_OneMore(i) == i <= PairTries

\* retry: for (let i = 0; i < tries; i++)
RetryMore(i) == i < PairTries

\* a catch that does not record the error: C8 fails of it
PairFailedStatus_NoError(s, e) == setStatus(s, [phase |-> "pairing_failed"])

\* the catch of the endpoint: setStatus({phase: 'pairing_failed', lastError})
PairFailedStatus(s, e) ==
  setStatus(s, [phase |-> "pairing_failed", lastError |-> e])

\* `pair_attempt_${attempt}`
PairPhase(n) ==
  CASE n = 1 -> "pair_attempt_1"
    [] n = 2 -> "pair_attempt_2"
    [] n = 3 -> "pair_attempt_3"
    [] OTHER -> "pair_attempt_n"

\* an attempt that destroys the session only after the first attempt and
\* otherwise takes the handle createWhatsAppSession finds: C23 as amended
\* fails of it
Attempt_ReuseFirst(p) ==
  IF p.i = 0 /\ sessions # NoHandle
    THEN /\ status' = setStatus(status, [phase |-> PairPhase(1)])
         /\ UNCHANGED <<handles, sessions, qrStore>>
         /\ pair' = IF WaitShortCircuit(status')
                      THEN [p EXCEPT !.pc = "pairing", !.calls = Append(@, 1),
                                     !.how = "short", !.sock = sessions]
                      ELSE [p EXCEPT !.pc = "wait", !.calls = Append(@, 1),
                                     !.how = "none", !.sock = sessions,
                                     !.listen = sessions]
    ELSE /\ status' = setStatus(setStatus(status, [phase |-> PairPhase(p.i + 1)]),
                                [phase |-> "creating"])
         /\ handles' = destroySocket(handles, sessions).handles
         /\ sessions' = NoHandle
         /\ qrStore' = FALSE
         /\ pair' = [p EXCEPT !.pc = "load", !.calls = Append(@, p.i + 1),
                              !.how = "none", !.sock = NoHandle]

\* fn(i + 1) up to the first await: setStatus, destroySocket and
\* createWhatsAppSession up to its first await (the entry was just deleted)
Attempt(p) ==
  /\ status' = setStatus(setStatus(status, [phase |-> PairPhase(p.i + 1)]),
                         [phase |-> "creating"])
  /\ LET d == destroySocket(handles, sessions)
     IN /\ handles' = d.handles
        /\ sessions' = d.sessions
        /\ qrStore' = d.qrStore
  /\ pair' = [p EXCEPT !.pc = "load", !.calls = Append(@, p.i + 1),
                       !.how = "none", !.sock = NoHandle]

\* req.body.phone: a missing phone, one without a digit, one with a digit
Phones == {<<>>, <<"+">>, <<"+", "3">>}

DigitChars == {"0", "1", "2", "3", "4", "5", "6", "7", "8", "9"}
IsDigit(ch) == ch \in DigitChars

\* a normalisation that removes nothing: C13 fails of it
Digits_KeepsAll(ph) == ph

\* (req.body?.phone || '').replace(/\D/g, '')
Digits(ph) == SelectSeq(ph, IsDigit)

\* the request arrives with a phone number that has digits
PairStart(ph) ==
  /\ pair.pc = "idle"
  /\ Digits(ph) # <<>>
  /\ Free >= PairTries
  /\ resetLast' = FALSE
  /\ Attempt([pair EXCEPT !.phone = Digits(ph)])
  /\ UNCHANGED <<disk, qrPending, creator, heal, nResets, clock>>

\* if (!phone) return res.status(400): the request ends there
PairReject(ph) ==
  /\ pair.pc = "idle"
  /\ Digits(ph) = <<>>
  /\ pair' = [pair EXCEPT !.pc = "done", !.res = "rejected"]
  /\ UNCHANGED <<sessions, qrStore, status, disk, handles, qrPending, creator,
                 heal, resetLast, nResets, clock>>

PairLoad ==
  /\ pair.pc = "load"
  /\ pair' = [pair EXCEPT !.pc = "version", !.reg = LoadCreds(disk)]
  /\ UNCHANGED <<sessions, qrStore, status, disk, handles, qrPending, creator,
                 heal, resetLast, nResets, clock>>

\* the rest of createWhatsAppSession, then waitForConnectionOpen(id, sock):
\* resolved at once, or its listener and timer set
PairConstruct ==
  /\ pair.pc = "version"
  /\ handles' = makeWASocket(handles, pair.reg, 0)
  /\ sessions' = NextHandle
  /\ status' = CreatedStatus(status, pair.reg)
  /\ pair' = IF WaitShortCircuit(status')
               THEN [pair EXCEPT !.pc = "pairing", !.sock = NextHandle, !.how = "short"]
               ELSE [pair EXCEPT !.pc = "wait", !.sock = NextHandle,
                                 !.listen = NextHandle]
  /\ UNCHANGED <<qrStore, disk, qrPending, creator, heal, resetLast, nResets, clock>>

\* a waitForConnectionOpen whose timer never fires: C25 fails of it
PairTimeout_NoTimer == FALSE /\ UNCHANGED vars

\* the timer of waitForConnectionOpen fires
PairTimeout ==
  /\ pair.pc = "wait"
  /\ pair' = off([pair EXCEPT !.pc = "delay", !.how = "timeout",
                              !.lastError = "Timeout waiting for connection open",
                              !.errs = Append(@, "Timeout waiting for connection open")])
  /\ UNCHANGED <<sessions, qrStore, status, disk, handles, qrPending, creator,
                 heal, resetLast, nResets, clock>>

\* sock.requestPairingCode(phone) returns a code: the attempt, retry and the
\* endpoint return
PairCodeOk ==
  /\ pair.pc = "pairing"
  /\ Emitting(pair.sock)
  /\ status' = setStatus(status, [phase |-> "pairing_code_issued"])
  /\ pair' = [pair EXCEPT !.pc = "done", !.res = "code"]
  /\ UNCHANGED <<sessions, qrStore, disk, handles, qrPending, creator, heal,
                 resetLast, nResets, clock>>

\* sock.requestPairingCode(phone) throws
PairCodeFail ==
  /\ pair.pc = "pairing"
  /\ pair' = [pair EXCEPT !.pc = "delay", !.lastError = "pairing code error",
                          !.errs = Append(@, "pairing code error")]
  /\ UNCHANGED <<sessions, qrStore, status, disk, handles, qrPending, creator,
                 heal, resetLast, nResets, clock>>

\* await delay(3000) of retry returns: the next attempt, or throw lastError
\* and the catch of the endpoint
PairDelayDone ==
  /\ pair.pc = "delay"
  /\ IF RetryMore(pair.i + 1)
       THEN Attempt([pair EXCEPT !.i = @ + 1])
       ELSE /\ status' = PairFailedStatus(status, pair.lastError)
            /\ pair' = [pair EXCEPT !.i = @ + 1, !.pc = "done", !.res = "error"]
            /\ UNCHANGED <<sessions, qrStore, handles>>
  /\ UNCHANGED <<disk, qrPending, creator, heal, resetLast, nResets, clock>>

\* a millisecond passes
Tick ==
  /\ clock < MaxClock
  /\ clock' = clock + 1
  /\ UNCHANGED <<sessions, qrStore, status, disk, handles, qrPending, creator,
                 pair, heal, resetLast, nResets>>

Next ==
  \/ \E c \in Creators : CreateStart(c)
  \/ \E c \in Creators : CreateLoad(c)
  \/ \E c \in Creators : CreateConstruct(c)
  \/ \E h \in Handles : EvQr(h)
  \/ \E h \in Handles : QrRendered(h)
  \/ \E h \in Handles : QrFailed(h)
  \/ \E h \in Handles : EvOpen(h)
  \/ \E h \in Handles, r \in CloseReasons : EvClose(h, r)
  \/ \E h \in Handles, reg \in BOOLEAN : EvCreds(h, reg)
  \/ \E h \in Handles : HealStart(h)
  \/ \E h \in Handles : HealLoad(h)
  \/ \E h \in Handles : HealConstruct(h)
  \/ Reset
  \/ Logout
  \/ \E ph \in Phones : PairStart(ph)
  \/ \E ph \in Phones : PairReject(ph)
  \/ PairLoad
  \/ PairConstruct
  \/ PairTimeout
  \/ PairCodeOk
  \/ PairCodeFail
  \/ PairDelayDone
  \/ Tick

Spec == Init /\ [][Next]_vars

\* ------------------------------------------------- partial specifications
\* The session lifecycle: create requests racing each other, the handles'
\* open / close / creds.update events, auto-heal and hard resets.
NextLife ==
  \/ \E c \in Creators : CreateStart(c)
  \/ \E c \in Creators : CreateLoad(c)
  \/ \E c \in Creators : CreateConstruct(c)
  \/ \E h \in Handles : EvOpen(h)
  \/ \E h \in Handles, r \in CloseReasons : EvClose(h, r)
  \/ \E h \in Handles, reg \in BOOLEAN : EvCreds(h, reg)
  \/ \E h \in Handles : HealStart(h)
  \/ \E h \in Handles : HealLoad(h)
  \/ \E h \in Handles : HealConstruct(h)
  \/ Reset
  \/ Logout

SpecLife == Init /\ [][NextLife]_vars

\* The authentication flows: one create request, the pairing request, hard
\* resets and the handles' events; no handle closes with the QR-exhaustion
\* message.
NextAuth ==
  \/ CreateStart(1)
  \/ CreateLoad(1)
  \/ CreateConstruct(1)
  \/ \E h \in Handles : EvOpen(h)
  \/ \E h \in Handles, r \in {x \in CloseReasons : Classify(x) # "autoHeal"} : EvClose(h, r)
  \/ \E h \in Handles, reg \in BOOLEAN : EvCreds(h, reg)
  \/ Reset
  \/ Logout
  \/ \E ph \in Phones : PairStart(ph)
  \/ \E ph \in Phones : PairReject(ph)
  \/ PairLoad
  \/ PairConstruct
  \/ PairTimeout
  \/ PairCodeOk
  \/ PairCodeFail
  \/ PairDelayDone

SpecAuth == Init /\ [][NextAuth]_vars

\* The session in each of its phases: the pairing request and the sessions
\* it creates, QR rendering, the handles' events without QR exhaustion, and
\* hard resets.
NextPhases ==
  \/ \E h \in Handles : EvQr(h)
  \/ \E h \in Handles : QrRendered(h)
  \/ \E h \in Handles : QrFailed(h)
  \/ \E h \in Handles : EvOpen(h)
  \/ \E h \in Handles, r \in {x \in CloseReasons : Classify(x) # "autoHeal"} : EvClose(h, r)
  \/ Reset
  \/ \E ph \in Phones : PairStart(ph)
  \/ \E ph \in Phones : PairReject(ph)
  \/ PairLoad
  \/ PairConstruct
  \/ PairTimeout
  \/ PairCodeOk
  \/ PairCodeFail
  \/ PairDelayDone

SpecPhases == Init /\ [][NextPhases]_vars

\* the steps of the pairing request that a timer or the return of an awaited
\* call takes
PairSteps ==
  \/ PairLoad
  \/ PairConstruct
  \/ PairTimeout
  \/ PairCodeOk
  \/ PairCodeFail
  \/ PairDelayDone

\* timers fire and awaited calls return
SpecPhasesFair == SpecPhases /\ WF_vars(PairSteps)

\* The status record against the clock: one create request, the handles'
\* events without QR exhaustion, a hard reset, and the passing of time.
NextClock ==
  \/ CreateStart(1)
  \/ CreateLoad(1)
  \/ CreateConstruct(1)
  \/ \E h \in Handles : EvQr(h)
  \/ \E h \in Handles : QrRendered(h)
  \/ \E h \in Handles : QrFailed(h)
  \/ \E h \in Handles : EvOpen(h)
  \/ \E h \in Handles, r \in {x \in CloseReasons : Classify(x) # "autoHeal"} : EvClose(h, r)
  \/ Reset
  \/ Tick

SpecClock == Init /\ [][NextClock]_vars

\* One create request at a time: create requests that do not overlap, the
\* handles' events, QR rendering, auto-heal and hard resets.
CreateStartAlone(c) ==
  /\ \A d \in Creators : ~InFlight(creator[d].pc)
  /\ CreateStart(c)

NextHeal ==
  \/ \E c \in Creators : CreateStartAlone(c)
  \/ \E c \in Creators : CreateLoad(c)
  \/ \E c \in Creators : CreateConstruct(c)
  \/ \E h \in Handles : EvQr(h)
  \/ \E h \in Handles : QrRendered(h)
  \/ \E h \in Handles : QrFailed(h)
  \/ \E h \in Handles : EvOpen(h)
  \/ \E h \in Handles, r \in CloseReasons : EvClose(h, r)
  \/ \E h \in Handles : HealStart(h)
  \/ \E h \in Handles : HealLoad(h)
  \/ \E h \in Handles : HealConstruct(h)
  \/ Reset

HealSteps ==
  \E h \in Handles : HealStart(h) \/ HealLoad(h) \/ HealConstruct(h)

\* timers fire and awaited calls return
SpecHeal == Init /\ [][NextHeal]_vars /\ WF_vars(HealSteps)


\* ================================================================ claims
QrEndMsg == "QR refs attempts ended"
TimeoutMsg == "Timeout waiting for connection open"

\* ------------------------------------------------------------------ C1
\* C1: create requests that overlap at the awaits of createWhatsAppSession,
\* on an id without a registry entry, construct one handle between them and
\* all return that handle.
C1_OneConstruction ==
  \A a, b \in Creators :
    (/\ a # b
     /\ a \in creator[b].with
     /\ creator[a].pc = "done"
     /\ creator[b].pc = "done")
    => /\ creator[a].res = creator[b].res
       /\ ~(creator[a].made /\ creator[b].made)

\* ------------------------------------------------------------------ C2
\* C2: at every moment at most one handle of the id has been constructed and
\* not terminated.
C2_OneLiveHandle == Cardinality({h \in Handles : Emitting(h)}) <= 1

\* ------------------------------------------------------------------ C3
\* C3: waitForConnectionOpen on a handle succeeds only when its listener has
\* seen an open update of that handle, before a close update and before the
\* timer.
C3_OpenObserved ==
  pair.pc = "pairing" =>
    /\ pair.how = "open"
    /\ handles[pair.sock].st # "init"

\* ------------------------------------------------------------------ C4
\* C4: the handler of a close update whose reason is loggedOut, whatever its
\* message, leaves no sessions entry and no qrStore entry, leaves the
\* credential files as they are and schedules no recreation; a create request
\* that then loads the credentials gets what the files hold.
C4_LoggedOutClose ==
  [][/\ \A h \in Handles, r \in CloseReasons :
          (r.lo /\ EvClose(h, r)) =>
            /\ sessions' = NoHandle
            /\ qrStore' = FALSE
            /\ disk' = disk
            /\ heal' = heal
     /\ \A c \in Creators :
          CreateLoad(c) => creator'[c].reg = (disk = "reg")]_vars

\* a create request has loaded the registered credentials after a handle
\* closed as logged out (no auto-heal ran, so the close with the
\* QR-exhaustion message was a logout)
C4_Witness ==
  /\ \A h \in Handles : heal[h].pc = "none"
  /\ status.lastError = QrEndMsg
  /\ sessions = NoHandle
  /\ handles[1].st = "dead"
  /\ \E c \in Creators : creator[c].pc = "version" /\ creator[c].reg

\* ------------------------------------------------------------------ C5
\* a close update with the QR-exhaustion message that is not a logout
QrEndClose(h) == EvClose(h, [lo |-> FALSE, msg |-> QrEndMsg])

\* C5: the handler of a close update whose message matches 'qr refs attempts
\* ended' empties the registry, keeps the credential files and schedules one
\* recreation; the recreation leaves the files alone and constructs at most
\* one handle; and the registry eventually holds a handle again (a handle
\* stored after the close was constructed after it).
C5_AutoHealOnce ==
  /\ [][\A h \in Handles :
          /\ QrEndClose(h) =>
               /\ sessions' = NoHandle
               /\ disk' = disk
               /\ heal'[h].pc = "delay"
               /\ \A k \in Handles \ {h} : heal'[k] = heal[k]
          /\ HealStart(h) \/ HealLoad(h) \/ HealConstruct(h) => disk' = disk]_vars
  /\ [](\A h \in Handles : Cardinality(heal[h].made) <= 1)
  /\ \A h \in Handles : (heal[h].pc = "delay") ~> (sessions # NoHandle)

\* an auto-heal has put its new handle, with the registered credentials, into
\* the registry
C5_Witness ==
  \E h \in Handles :
    /\ heal[h].pc = "done"
    /\ sessions \in heal[h].made
    /\ Emitting(sessions)
    /\ handles[sessions].reg
    /\ status.lastError = QrEndMsg

\* ------------------------------------------------------------------ C6
\* C6: no handle is the product of more than HealCeiling automatic
\* recreations in a row.
C6_HealCeiling == \A h \in Handles : handles[h].gen <= HealCeiling

AllTimeouts(errs) == \A k \in 1..Len(errs) : errs[k] = TimeoutMsg

\* C8: when POST /pair returns a pairing code, the code was issued by the
\* handle of the attempt and the status phase is pairing_code_issued; when it
\* returns after attempts that all timed out waiting for the open, there were
\* three of them, the error returned is the timeout error, the status phase is
\* pairing_failed and lastError is that error.
C8_PairOutcome ==
  [][(pair.pc # "done" /\ pair'.pc = "done") =>
       /\ pair'.res = "code" =>
            /\ Emitting(pair.sock)
            /\ status'.phase = "pairing_code_issued"
       /\ (pair'.res = "error" /\ AllTimeouts(pair'.errs)) =>
            /\ Len(pair'.errs) = PairTries
            /\ pair'.lastError = TimeoutMsg
            /\ status'.phase = "pairing_failed"
            /\ status'.lastError = TimeoutMsg]_vars

\* POST /pair has failed after three open timeouts
C8_Witness ==
  /\ pair.pc = "done"
  /\ pair.res = "error"
  /\ pair.errs = <<TimeoutMsg, TimeoutMsg, TimeoutMsg>>
  /\ status.phase = "pairing_failed"

\* ------------------------------------------------------------------ C9
\* C9: retry calls its action with 1, 2, 3 in order and at most three times;
\* every call but the last has failed; after a call that succeeds there is no
\* further call and its result is returned; retry fails only after three
\* failed calls, with the error of the third.
C9_RetryBound ==
  /\ Len(pair.calls) <= PairTries
  /\ \A k \in 1..Len(pair.calls) : pair.calls[k] = k
  /\ Len(pair.errs) <= Len(pair.calls)
  /\ Len(pair.calls) <= Len(pair.errs) + 1
  /\ pair.res = "code" =>
       /\ pair.pc = "done"
       /\ Len(pair.calls) = Len(pair.errs) + 1
  /\ pair.res = "error" =>
       /\ pair.pc = "done"
       /\ Len(pair.calls) = PairTries
       /\ Len(pair.errs) = PairTries
       /\ pair.lastError = pair.errs[PairTries]

\* retry has returned the code of its third call after two failed calls
C9_Witness ==
  /\ pair.pc = "done"
  /\ pair.res = "code"
  /\ pair.calls = <<1, 2, 3>>
  /\ Len(pair.errs) = 2

\* ----------------------------------------------------------------- C10
\* C10: a create request that is the first request after POST /reset returns
\* with the status field registered = false.
C10_FreshAfterReset ==
  [][\A c \in Creators :
       (/\ creator[c].pc # "done"
        /\ creator'[c].pc = "done"
        /\ creator'[c].afterReset)
       => status'.registered = "false"]_vars

\* ----------------------------------------------------------------- C11
\* C11: a logout request empties the registry and leaves the credential
\* files as they are; the files are deleted only by a reset request.
C11_LogoutKeepsCreds ==
  [][/\ Logout => (sessions' = NoHandle /\ disk' = disk)
     /\ (disk # "absent" /\ disk' = "absent") => Reset]_vars

\* ----------------------------------------------------------------- C12
\* C12: a reset request, in whatever state it arrives, returns with the
\* handle that was in the registry ended, no sessions entry, no qrStore entry
\* and the credential files deleted.
C12_ResetClears ==
  [][Reset =>
       /\ sessions' = NoHandle
       /\ qrStore' = FALSE
       /\ disk' = "absent"
       /\ sessions # NoHandle => handles'[sessions].st = "dead"]_vars

\* the reset arrived while a pairing attempt waited for its handle to open
C12_Witness ==
  /\ status.phase = "reset"
  /\ pair.pc = "wait"
  /\ handles[pair.sock].st = "dead"
  /\ sessions = NoHandle
  /\ disk = "absent"

\* ----------------------------------------------------------------- C13
NoDigit(ph) == \A k \in 1..Len(ph) : ph[k] \notin DigitChars

\* C13: a pairing request whose phone is missing or has no digit is rejected
\* and changes nothing: no handle is constructed or ended and the sessions,
\* qrStore and status entries and the credential files stay as they are.
C13_BadPhoneRejected ==
  [][\A ph \in Phones :
       (NoDigit(ph) /\ (PairStart(ph) \/ PairReject(ph))) =>
         /\ pair'.res = "rejected"
         /\ UNCHANGED <<sessions, qrStore, status, handles, disk>>]_vars

\* a request without a usable phone was rejected while the session was open
C13_Witness ==
  /\ pair.pc = "done"
  /\ pair.res = "rejected"
  /\ pair.calls = <<>>
  /\ sessions # NoHandle
  /\ status.phase = "open"

\* ----------------------------------------------------------------- C14
\* C14: a reset or logout request for an id that has no session leaves the
\* sessions, qrStore and status entries of the id exactly as they were.
C14_AbsentNoOp ==
  [][((Reset \/ Logout) /\ sessions = NoHandle /\ status = EmptyStatus) =>
       UNCHANGED <<sessions, qrStore, status>>]_vars

\* ----------------------------------------------------------------- C15
\* C15: a create request for an id that has a registry entry returns that
\* handle, constructs nothing and leaves the status record, the qrStore entry
\* and the credential files as they are.
C15_CreateIdempotent ==
  [][\A c \in Creators :
       (CreateStart(c) /\ sessions # NoHandle) =>
         /\ creator'[c].pc = "done"
         /\ creator'[c].res = sessions
         /\ UNCHANGED <<sessions, handles, status, qrStore, disk>>]_vars

\* a create request has returned the handle that was already stored, with its
\* QR in the store
C15_Witness ==
  \E c \in Creators :
    /\ creator[c].pc = "done"
    /\ ~creator[c].made
    /\ creator[c].res = sessions
    /\ sessions # NoHandle
    /\ qrStore
    /\ status.phase = "qr_ready"

\* ----------------------------------------------------------------- C16
\* C16: every step that rewrites the status record stores an updatedAt
\* strictly greater than the one it replaces.
C16_UpdatedAtIncreases ==
  [][status' # status => status'.updatedAt > status.updatedAt]_vars

\* ----------------------------------------------------------------- C17
\* C17: in every reachable state a status record with connected = true has
\* phase open.
C17_ConnectedIsOpen == status.connected = "true" => status.phase = "open"

\* ----------------------------------------------------------------- C18
\* C18: the handler of an open update leaves no qrStore entry for the id and
\* hasQr = false in the status.
C18_OpenClearsQr ==
  [][\A h \in Handles :
       EvOpen(h) => (qrStore' = FALSE /\ status'.hasQr = "false")]_vars

\* ----------------------------------------------------------------- C19
\* a createWhatsAppSession call of some task is between its first statement
\* and its sessions.set
Constructing ==
  \/ \E c \in Creators : InFlight(creator[c].pc)
  \/ \E h \in Handles : InFlight(heal[h].pc)
  \/ InFlight(pair.pc)

\* C19: in every reachable state with no registry entry for the id and no
\* construction in progress, qrStore has no entry for the id.
C19_NoArtifactWithoutSession ==
  (sessions = NoHandle /\ ~Constructing) => qrStore = FALSE

\* ----------------------------------------------------------------- C20
\* the handler has processed an open or a close update of handle h
LaterEventSeen(h) == handles[h].st = "open" \/ heal[h].pc # "none"

\* C20: the status mutation of a qr update (the one after its rendering) is
\* not applied once the status mutation of a later open or close update of
\* the same handle has been applied.
C20_StatusInEventOrder ==
  [][\A h \in Handles :
       (QrRendered(h) \/ QrFailed(h)) => ~LaterEventSeen(h)]_vars

\* ----------------------------------------------------------------- C21
\* C21: the listener of a waitForConnectionOpen call is registered on a
\* handle only while that call is pending on that handle; once the call has
\* completed, by open, by close or by timeout, no listener is left.
C21_NoListenerLeft ==
  pair.listen # NoHandle => (pair.pc = "wait" /\ pair.sock = pair.listen)

\* a wait has timed out on a handle that is still connecting, and its
\* listener is gone
C21_Witness ==
  /\ pair.pc = "delay"
  /\ pair.how = "timeout"
  /\ handles[pair.sock].st = "init"
  /\ pair.listen = NoHandle

\* ----------------------------------------------------------------- C22
\* the status record of the id says the session is open
StatusSaysOpen(s) == s.connection = "open" \/ s.connected = "true"

NextAttempt == PairDelayDone /\ pair'.pc = "load"

C24_LastErrorCleared ==
  [][/\ (\E h \in Handles : EvOpen(h)) => status'.lastError = "undef"
     /\ Reset => status'.lastError = "undef"
     /\ (status.lastError # "undef" /\ status'.lastError = "undef") =>
          ((\E h \in Handles : EvOpen(h)) \/ Reset)]_vars

\* ----------------------------------------------------------------- C25
\* C25: a pairing request with a valid phone, once started, eventually
\* returns, with a pairing code or with an error, and returns once: after its
\* response nothing of the request changes.
C25_PairTerminates ==
  /\ (pair.calls # <<>>) ~> (pair.pc = "done")
  /\ [](pair.pc = "done" /\ pair.calls # <<>> => pair.res \in {"code", "error"})
  /\ [][pair.pc = "done" => pair' = pair]_vars

\* the request has returned a code from its second attempt, after the handle
\* of the first closed before it opened
C25_Witness ==
  /\ pair.pc = "done"
  /\ pair.res = "code"
  /\ pair.how = "open"
  /\ pair.errs = <<"Connection closed before open">>

\* ----------------------------------------------------------------- C26
\* C26: a close update of a handle that is not the one stored for the id
\* leaves the stored handle in the registry, not ended, and leaves the status
\* record as it is.
C26_StaleCloseIgnored ==
  [][\A h \in Handles, r \in CloseReasons :
       (EvClose(h, r) /\ sessions # NoHandle /\ sessions # h) =>
         /\ sessions' = sessions
         /\ handles'[sessions] = handles[sessions]
         /\ status' = status]_vars

\* ----------------------------------------------------------------- C27
\* C27: from a reset request to the next create, pairing or logout request
\* the registry holds no handle for the id.
C27_EmptyAfterReset == resetLast => sessions = NoHandle

\* ----------------------------------------------------------------- C28
\* C28: when waitForConnectionOpen is called on the handle just constructed,
\* the status record does not say open, so the call waits for an update of
\* that handle.
C28_NoStaleOpen ==
  [][PairConstruct =>
       (~StatusSaysOpen(status') /\ pair'.pc = "wait")]_vars
====
